---- MODULE Spec2Model ----
(***************************************************************************)
(* Model of the Uniswap-V2 style router of raghava-pamula/routing:         *)
(* OnChainV2Router.Route, OnChainExchangeRateProvider.GetExchangeRate,     *)
(* OnChainPoolsProvider.GetPools, toEighteenDecimals and calculatePrice.   *)
(*                                                                         *)
(* An asset is a one-digit address, written as the character code of its   *)
(* checksummed hex digit (what common.Address.String() prints): 49 is "1", *)
(* 66 is "B", 97 is "a".  The code compares assets in two ways: by the     *)
(* printed string (Route) and by the parsed magnitude (GetExchangeRate).   *)
(*                                                                         *)
(* A *big.Int amount is [m, e], standing for m * 10^e.  A *big.Float is     *)
(* [k, num, den]: a non-negative rational in lowest terms (k = "fin"),     *)
(* +Inf (k = "inf"), or the ErrNaN panic of math/big (k = "nan"); the      *)
(* rounding of the mantissa is not modelled.                               *)
(***************************************************************************)
EXTENDS Integers, Sequences, FiniteSets, TLC

VARIABLES ledger, pc, req, tokens, reservesCache, table, prev,
          bestPrice, numHops, calls, result

vars == <<ledger, pc, req, tokens, reservesCache, table, prev,
          bestPrice, numHops, calls, result>>

\* ---------------------------------------------------------------- bounds
MaxReserve == 2
MaxScale == 1
MaxHopsInput == 6

\* ------------------------------------------------------ program constants
MaxHops == 5
Precision == 18

\* ------------------------------------------------------------- addresses
\* tokenA.String()[2:] parsed base 16: digits, upper and lower case letters.
Magnitude(a) ==
    IF a >= 97 THEN a - 87 ELSE IF a >= 65 THEN a - 55 ELSE a - 48

\* tokens[i].String() < tokens[j].String(): byte-wise string comparison.
StrLess(a, b) == a < b

ZeroAddress == {}

PairsOf(S) == {p \in SUBSET S : Cardinality(p) = 2}

Lo(p) == CHOOSE a \in p : \A b \in p : Magnitude(a) <= Magnitude(b)
Hi(p) == CHOOSE a \in p : \A b \in p : Magnitude(a) >= Magnitude(b)

\* The pool contract keeps reserve0 for the numerically smaller address.
ReserveOf(l, a, b) ==
    IF a = Lo({a, b}) THEN l.pool[{a, b}].read.r0 ELSE l.pool[{a, b}].read.r1

\* ------------------------------------------------------------- big.Float
RECURSIVE GCD(_, _)
GCD(a, b) == IF b = 0 THEN a ELSE GCD(b, a % b)

Fin(n, d) == [k |-> "fin", num |-> n \div GCD(n, d), den |-> d \div GCD(n, d)]
Zero == [k |-> "fin", num |-> 0, den |-> 1]
One == [k |-> "fin", num |-> 1, den |-> 1]
Inf == [k |-> "inf", num |-> 1, den |-> 0]
NaN == [k |-> "nan", num |-> 0, den |-> 0]

IsZero(x) == x.k = "fin" /\ x.num = 0

\* (*big.Float).Cmp for non-negative operands: -1, 0 or +1.
Cmp(x, y) ==
    IF x.k = "inf" THEN (IF y.k = "inf" THEN 0 ELSE 1)
    ELSE IF y.k = "inf" THEN -1
    ELSE IF x.num * y.den < y.num * x.den THEN -1
    ELSE IF x.num * y.den > y.num * x.den THEN 1
    ELSE 0

\* (*big.Float).Mul: panics with ErrNaN for 0 * Inf.
Mul(x, y) ==
    IF x.k = "inf" \/ y.k = "inf"
    THEN (IF IsZero(x) \/ IsZero(y) THEN NaN ELSE Inf)
    ELSE Fin(x.num * y.num, x.den * y.den)

RECURSIVE Pow10(_)
Pow10(n) == IF n = 0 THEN 1 ELSE 10 * Pow10(n - 1)

Min(a, b) == IF a <= b THEN a ELSE b

\* new(big.Float).Quo(SetInt(x), SetInt(y)) for amounts x, y: panics with
\* ErrNaN for 0 / 0 and is +Inf for a non-zero amount over 0.
Quo(x, y) ==
    IF x.m = 0 /\ y.m = 0 THEN NaN
    ELSE IF y.m = 0 THEN Inf
    ELSE Fin(x.m * Pow10(x.e - Min(x.e, y.e)), y.m * Pow10(y.e - Min(x.e, y.e)))

\* -------------------------------------------------------- pricing helpers
Amount(r) == [m |-> r, e |-> 0]

\* Mutant: the amount is returned as it is, whatever the precision.
toEighteenDecimals_Unscaled(amount, decimals) == amount

\* uint8 arithmetic: 18 - decimals wraps modulo 256.
toEighteenDecimals(amount, decimals) ==
    IF decimals = Precision THEN amount
    ELSE [m |-> amount.m, e |-> amount.e + ((Precision - decimals) % 256)]

calculatePrice(reserve0, reserve1, decimalsA, decimalsB) ==
    Quo(toEighteenDecimals(Amount(reserve1), decimalsB),
        toEighteenDecimals(Amount(reserve0), decimalsA))

\* ----------------------------------------------------------- collaborators
\* TradingPairProvider.GetTradingPair: the zero address comes with an error.
GetTradingPair(l, a, b) ==
    IF l.pool[{a, b}].resolver = "ok"
    THEN [addr |-> {a, b}, err |-> "nil"]
    ELSE [addr |-> ZeroAddress, err |-> l.pool[{a, b}].resolver]

\* PoolReservesProvider.GetPoolReserves
GetPoolReserves(l, addr) ==
    LET rd == IF addr = ZeroAddress THEN l.zero ELSE l.pool[addr].read
    IN  IF rd.ok THEN [r0 |-> rd.r0, r1 |-> rd.r1, err |-> "nil"]
        ELSE [r0 |-> 0, r1 |-> 0, err |-> "ErrReserves"]

\* TokenDecimalsProvider.GetTokenDecimals: 0 comes with an error.
GetTokenDecimals(l, a) ==
    IF l.decFail THEN [d |-> 0, err |-> "ErrDecimals"]
    ELSE [d |-> l.dec[a], err |-> "nil"]

NoResult == [status |-> "none", rate |-> Zero, path |-> <<>>, err |-> "nil"]
Failure(e) == [status |-> "error", rate |-> Zero, path |-> <<>>, err |-> e]
Panic(e) == [status |-> "panic", rate |-> Zero, path |-> <<>>, err |-> e]
Success(r, p) == [status |-> "ok", rate |-> r, path |-> p, err |-> "nil"]

\* OnChainExchangeRateProvider.GetExchangeRate: the outcome and the set of
\* collaborators called.
GetExchangeRate(l, tokenA, tokenB) ==
    IF tokenA = tokenB THEN [res |-> Failure("ErrSameToken"), calls |-> {}]
    ELSE
      LET pair == GetTradingPair(l, tokenA, tokenB)
          decimalsA == GetTokenDecimals(l, tokenA).d
          decimalsB == GetTokenDecimals(l, tokenB).d
          rs == GetPoolReserves(l, pair.addr)
          called == {"pair", "decimals", "reserves"}
          price ==
            IF Magnitude(tokenA) < Magnitude(tokenB)
            THEN Quo(toEighteenDecimals(Amount(rs.r1), decimalsB),
                     toEighteenDecimals(Amount(rs.r0), decimalsA))
            ELSE Quo(toEighteenDecimals(Amount(rs.r0), decimalsB),
                     toEighteenDecimals(Amount(rs.r1), decimalsA))
      IN  IF rs.err # "nil" THEN [res |-> Failure(rs.err), calls |-> called]
          ELSE IF Magnitude(tokenA) = Magnitude(tokenB)
          THEN [res |-> Failure("ErrSameToken"), calls |-> called]
          ELSE IF price.k = "nan"
          THEN [res |-> Panic("ErrNaN"), calls |-> called]
          ELSE [res |-> Success(price, <<>>), calls |-> called]

\* OnChainPoolsProvider.GetPools: one pool per pair i < j of the top tokens,
\* in order; the first pair the resolver fails on fails the enumeration.
RECURSIVE GetPoolsFrom(_, _, _, _)
GetPoolsFrom(l, i, j, pools) ==
    LET top == l.top IN
    IF i > Len(top) THEN [err |-> "nil", pools |-> pools]
    ELSE IF j > Len(top) THEN GetPoolsFrom(l, i + 1, i + 2, pools)
    ELSE IF top[i] = top[j] THEN GetPoolsFrom(l, i, j + 1, pools)
    ELSE LET pair == GetTradingPair(l, top[i], top[j])
         IN  IF pair.err # "nil" THEN [err |-> pair.err, pools |-> <<>>]
             ELSE GetPoolsFrom(l, i, j + 1,
                    Append(pools, [token0 |-> top[i], token1 |-> top[j],
                                   contract |-> pair.addr]))

GetPools(l) == GetPoolsFrom(l, 1, 2, <<>>)

InSeq(s, x) == \E i \in 1..Len(s) : s[i] = x

AppendNew(s, x) == IF InSeq(s, x) THEN s ELSE Append(s, x)

\* Route, lines 97-107: the assets of the pools in first-seen order.
RECURSIVE PoolTokens(_, _, _)
PoolTokens(pools, i, acc) ==
    IF i > Len(pools) THEN acc
    ELSE PoolTokens(pools, i + 1,
                    AppendNew(AppendNew(acc, pools[i].token0), pools[i].token1))

\* Route, lines 97-114: tokenIn and tokenOut are appended when no pool has
\* them.
BuildTokens(pools, tokenIn, tokenOut) ==
    LET used == PoolTokens(pools, 1, <<>>)
        withIn == IF InSeq(used, tokenIn) THEN used ELSE Append(used, tokenIn)
    IN  IF InSeq(used, tokenOut) THEN withIn ELSE Append(withIn, tokenOut)

\* Route, lines 116-125: the last index holding the asset.
IndexOf(s, x) == CHOOSE i \in 1..Len(s) : s[i] = x /\ \A j \in (i+1)..Len(s) : s[j] # x

\* Route, lines 143-147: the cache entry for the key tokens[i] + tokens[j].
CacheEntry(ti, tj, reservesA, reservesB) ==
    IF StrLess(tj, ti) THEN <<reservesB, reservesA>> ELSE <<reservesA, reservesB>>

\* Route, lines 129-149: every ordered pair of distinct nodes, in order; any
\* error of the resolver or of the reserve reader ends the population.
RECURSIVE PopulateFrom(_, _, _, _, _)
PopulateFrom(l, toks, i, j, cache) ==
    IF i > Len(toks) THEN [err |-> "nil", cache |-> cache]
    ELSE IF j > Len(toks) THEN PopulateFrom(l, toks, i + 1, 1, cache)
    ELSE IF i = j THEN PopulateFrom(l, toks, i, j + 1, cache)
    ELSE LET pair == GetTradingPair(l, toks[i], toks[j])
             rs == GetPoolReserves(l, pair.addr)
         IN  IF pair.err # "nil" THEN [err |-> pair.err, cache |-> cache]
             ELSE IF rs.err # "nil" THEN [err |-> rs.err, cache |-> cache]
             ELSE PopulateFrom(l, toks, i, j + 1,
                    (<<toks[i], toks[j]>> :> CacheEntry(toks[i], toks[j], rs.r0, rs.r1))
                      @@ cache)

Populate(l, toks) == PopulateFrom(l, toks, 1, 1, <<>>)

\* Route, lines 184-192: the cached pair oriented as (reservesInput,
\* reservesOutput).
Orient(cache, tin, tout) ==
    IF StrLess(tin, tout)
    THEN [in |-> cache[<<tin, tout>>][1], out |-> cache[<<tin, tout>>][2]]
    ELSE [out |-> cache[<<tout, tin>>][1], in |-> cache[<<tout, tin>>][2]]

\* Route, lines 170-174: a node keeps the value it had one level below.
SelfRelax(st, prevRow, output) ==
    IF Cmp(st.row[output], prevRow[output]) < 0
    THEN [st EXCEPT !.row[output] = prevRow[output]]
    ELSE st

\* Route, lines 199-203: a strictly better candidate replaces the value and
\* the predecessor.
Improve(st, toks, input, output, possibleOutputAmount) ==
    IF Cmp(possibleOutputAmount, st.row[output]) > 0
    THEN [st EXCEPT !.row[output] = possibleOutputAmount,
                    !.prev = (toks[output] :> toks[input]) @@ st.prev]
    ELSE st

\* Route, lines 168-204: one (input, output) iteration of level i.
RelaxPair(l, toks, cache, prevRow, st, input, output) ==
    IF st.panic # "nil" THEN st
    ELSE IF input = output THEN SelfRelax(st, prevRow, output)
    ELSE IF IsZero(prevRow[input]) THEN st
    ELSE LET rs == Orient(cache, toks[input], toks[output])
             rate == calculatePrice(rs.in, rs.out,
                                    GetTokenDecimals(l, toks[input]).d,
                                    GetTokenDecimals(l, toks[output]).d)
             possibleOutputAmount == Mul(prevRow[input], rate)
         IN  IF rate.k = "nan" \/ possibleOutputAmount.k = "nan"
             THEN [st EXCEPT !.panic = "ErrNaN"]
             ELSE Improve(st, toks, input, output, possibleOutputAmount)

RECURSIVE RelaxFrom(_, _, _, _, _, _)
RelaxFrom(l, toks, cache, prevRow, st, k) ==
    LET n == Len(toks) IN
    IF k >= n * n THEN st
    ELSE RelaxFrom(l, toks, cache, prevRow,
                   RelaxPair(l, toks, cache, prevRow, st, (k \div n) + 1, (k % n) + 1),
                   k + 1)

\* Route, lines 159-205: the row and the predecessors of one level i >= 1.
RelaxLevel(l, toks, cache, prevRow) ==
    RelaxFrom(l, toks, cache, prevRow,
              [row |-> [x \in 1..Len(toks) |-> Zero], prev |-> <<>>, panic |-> "nil"],
              0)

\* Mutant: the search goes on when a level leaves the destination as it was.
Stops_OnlyWhenWorse(best, value) == Cmp(best, value) > 0

\* Route, lines 207-211: the search stops at the first level that does not
\* strictly improve the destination.
Stops(best, value) == Cmp(best, value) >= 0

\* Route, lines 217-224: follow the predecessors from level i down.
RECURSIVE Walk(_, _, _, _)
Walk(pm, i, currentToken, path) ==
    IF i < 0 THEN path
    ELSE IF currentToken \notin DOMAIN pm[i] THEN Append(path, currentToken)
    ELSE Walk(pm, i - 1, pm[i][currentToken], Append(path, currentToken))

reverse(arr) == [i \in 1..Len(arr) |-> arr[Len(arr) + 1 - i]]

\* Route, lines 213-226: the path, then the value of level numHops - 1;
\* indexing level -1 is a run-time panic.
Reconstruct(tbl, pm, toks, tokenOut, hops) ==
    LET path == reverse(Walk(pm, hops - 1, tokenOut, <<>>))
    IN  IF hops - 1 < 0 THEN Panic("IndexOutOfRange")
        ELSE Success(tbl[hops][IndexOf(toks, tokenOut)], path)

\* ------------------------------------------------------------ the ledger
ReadOk(r0, r1) == [ok |-> TRUE, r0 |-> r0, r1 |-> r1]
ReadFail == [ok |-> FALSE, r0 |-> 0, r1 |-> 0]

Reserves == 0..MaxReserve

Pool(r0, r1) == [resolver |-> "ok", read |-> ReadOk(r0, r1)]

\* What can be wrong with a pair: the pool does not report its reserves, or
\* the resolver fails (no pool for the pair, or an error of its own).
FaultyPools ==
    {[resolver |-> "ok", read |-> ReadFail]}
    \cup {[resolver |-> e, read |-> ReadFail] : e \in {"ErrNoPair", "ErrResolver"}}

RouteAssets == {49, 66, 97}
RouteTop == <<49, 66>>

AllPrecise(S) == [a \in S |-> Precision]

Ledger(S, top, pl, zero, dec, decFail) ==
    [assets |-> S, top |-> top, pool |-> pl, zero |-> zero, dec |-> dec,
     decFail |-> decFail]

\* Every collaborator answers; each pool holds any reserves, zero included.
HealthyLedgers ==
    {Ledger(RouteAssets, RouteTop, pl, ReadFail, AllPrecise(RouteAssets), FALSE) :
        pl \in [PairsOf(RouteAssets) ->
                  {Pool(r0, r1) : r0 \in Reserves, r1 \in Reserves}]}

\* Any pair may be faulty, and the precision reader may be down.
FaultyLedgers ==
    {Ledger(RouteAssets, RouteTop, pl, ReadFail, AllPrecise(RouteAssets), f) :
        pl \in [PairsOf(RouteAssets) -> {Pool(1, 2)} \cup FaultyPools],
        f \in BOOLEAN}

\* Positive reserves; the first top token has fewer than 18 decimals.
ScaledLedgers ==
    {Ledger(RouteAssets, RouteTop, pl, ReadFail,
            [a \in RouteAssets |-> IF a = RouteTop[1] THEN Precision - s ELSE Precision],
            FALSE) :
        pl \in [PairsOf(RouteAssets) ->
                  {Pool(r0, r1) : r0 \in 1..MaxReserve, r1 \in 1..MaxReserve}],
        s \in 1..MaxScale}

RouteLedgers == HealthyLedgers \cup FaultyLedgers \cup ScaledLedgers

\* Four assets whose printed order is their numeric order, three of them top
\* tokens; every pair has a pool with positive reserves.
MeshAssets == {49, 50, 54, 65}
MeshTop == <<49, 50, 54>>

MeshLedgers ==
    {Ledger(MeshAssets, MeshTop, pl, ReadFail, AllPrecise(MeshAssets), FALSE) :
        pl \in [PairsOf(MeshAssets) -> {Pool(1, 1), Pool(1, 2)}]}

\* The pool of a and b holding ra of a and rb of b.
PoolOf(a, ra, b, rb) ==
    IF Magnitude(a) < Magnitude(b) THEN Pool(ra, rb) ELSE Pool(rb, ra)

\* The ways a ledger has no pool for a pair: the resolver says so, the
\* resolved address reports nothing, or the pool is empty.
AbsentPools ==
    {[resolver |-> "ErrNoPair", read |-> ReadFail],
     [resolver |-> "ok", read |-> ReadFail],
     Pool(0, 0)}

\* Assets x, y, z of precision 18: pool(x, y) holds (100, 200), pool(y, z)
\* holds (100, 50), and x and z have no pool.
ScenarioLedger(x, y, z, top, absent) ==
    Ledger({x, y, z}, top,
           [p \in PairsOf({x, y, z}) |->
              IF p = {x, y} THEN PoolOf(x, 100, y, 200)
              ELSE IF p = {y, z} THEN PoolOf(y, 100, z, 50)
              ELSE absent],
           ReadFail, AllPrecise({x, y, z}), FALSE)

ScenarioTop(t, kind) ==
    IF kind = "xy" THEN <<t[1], t[2]>>
    ELSE IF kind = "yz" THEN <<t[2], t[3]>>
    ELSE <<t[1], t[2], t[3]>>

ScenarioLedgers ==
    {ScenarioLedger(t[1], t[2], t[3], ScenarioTop(t, kind), absent) :
        t \in {u \in RouteAssets \X RouteAssets \X RouteAssets :
                 Cardinality({u[1], u[2], u[3]}) = 3},
        kind \in {"xy", "yz", "xyz"}, absent \in AbsentPools}

\* Reserves and precisions for the direct quote: one pair takes every state,
\* with the reserves (95, 19) of TestGetExchangeRate among them, its two
\* assets take every precision, and the zero address may report reserves.
QuoteReserves == Reserves \cup {19, 95}

QuotePrecisions == (Precision - MaxScale)..Precision

QuoteLedger(p, st, zero, d, f) ==
    Ledger(RouteAssets, RouteTop,
           [q \in PairsOf(RouteAssets) |-> IF q = p THEN st ELSE Pool(1, 1)],
           zero,
           [a \in RouteAssets |->
              IF a = Lo(p) THEN d[1] ELSE IF a = Hi(p) THEN d[2] ELSE Precision],
           f)

QuotePools ==
    {Pool(r0, r1) : r0 \in QuoteReserves, r1 \in QuoteReserves} \cup FaultyPools

QuoteLedgers ==
    {QuoteLedger(p, st, zero, d, FALSE) :
        p \in {{49, 66}, {66, 97}}, st \in QuotePools,
        zero \in {ReadFail, ReadOk(95, 19)},
        d \in QuotePrecisions \X QuotePrecisions}
    \cup
    {QuoteLedger(p, st, zero, <<Precision, Precision>>, TRUE) :
        p \in {{49, 66}, {66, 97}}, st \in QuotePools,
        zero \in {ReadFail, ReadOk(95, 19)}}

Idle(l) ==
    /\ ledger = l
    /\ pc = "idle"
    /\ req = [op |-> "none", tokenIn |-> 0, tokenOut |-> 0, maxHops |-> 0]
    /\ tokens = <<>>
    /\ reservesCache = <<>>
    /\ table = <<>>
    /\ prev = <<>>
    /\ bestPrice = Zero
    /\ numHops = 0
    /\ calls = {}
    /\ result = NoResult

Init == \E l \in RouteLedgers \cup MeshLedgers : Idle(l)

\* ------------------------------------------------------------ operations
\* The state of one call: the position in the code and the locals of Route.
Current ==
    [pc |-> pc, tokens |-> tokens, reservesCache |-> reservesCache, table |-> table,
     prev |-> prev, bestPrice |-> bestPrice, numHops |-> numHops, calls |-> calls,
     result |-> result]

Fresh ==
    [pc |-> "idle", tokens |-> <<>>, reservesCache |-> <<>>, table |-> <<>>,
     prev |-> <<>>, bestPrice |-> Zero, numHops |-> 0, calls |-> {},
     result |-> NoResult]

Finish(s, res) == [s EXCEPT !.pc = "done", !.result = res]

Request(op, tokenIn, tokenOut, maxHops) ==
    [op |-> op, tokenIn |-> tokenIn, tokenOut |-> tokenOut, maxHops |-> maxHops]

\* Mutant: the one-hop fast path is taken before the assets are compared.
Enter_FastPathFirst(l, rq, s) ==
    IF rq.maxHops = 1 THEN
      LET q == GetExchangeRate(l, rq.tokenIn, rq.tokenOut)
          called == [s EXCEPT !.calls = {"rate"} \cup q.calls]
      IN  IF q.res.status = "ok"
          THEN Finish(called, Success(q.res.rate, <<rq.tokenIn, rq.tokenOut>>))
          ELSE Finish(called, q.res)
    ELSE IF rq.tokenIn = rq.tokenOut THEN Finish(s, Failure("ErrSameToken"))
    ELSE IF rq.maxHops = 0 THEN Finish(s, Failure("ErrZeroHops"))
    ELSE IF rq.maxHops > MaxHops THEN Finish(s, Failure("ErrTooManyHops"))
    ELSE [s EXCEPT !.pc = "nodes"]

\* Route, lines 69-89: validation and the one-hop fast path.
Enter(l, rq, s) ==
    IF rq.tokenIn = rq.tokenOut THEN Finish(s, Failure("ErrSameToken"))
    ELSE IF rq.maxHops = 0 THEN Finish(s, Failure("ErrZeroHops"))
    ELSE IF rq.maxHops = 1 THEN
      LET q == GetExchangeRate(l, rq.tokenIn, rq.tokenOut)
          called == [s EXCEPT !.calls = {"rate"} \cup q.calls]
      IN  IF q.res.status = "ok"
          THEN Finish(called, Success(q.res.rate, <<rq.tokenIn, rq.tokenOut>>))
          ELSE Finish(called, q.res)
    ELSE IF rq.maxHops > MaxHops THEN Finish(s, Failure("ErrTooManyHops"))
    ELSE [s EXCEPT !.pc = "nodes"]

\* Route, lines 91-125: the pools and the node list.
BuildNodes(l, rq, s) ==
    LET got == GetPools(l)
        called == [s EXCEPT !.calls = s.calls \cup {"pools"}
                              \cup (IF Len(l.top) > 1 THEN {"pair"} ELSE {})]
    IN  IF got.err # "nil" THEN Finish(called, Failure(got.err))
        ELSE [called EXCEPT !.pc = "cache",
                            !.tokens = BuildTokens(got.pools, rq.tokenIn, rq.tokenOut)]

\* Route, lines 127-149: the reserve cache.
PopulateCache(l, rq, s) ==
    LET got == Populate(l, s.tokens)
        called == [s EXCEPT !.reservesCache = got.cache,
                            !.calls = s.calls \cup {"pair"} \cup
                               (IF got.err \in {"ErrNoPair", "ErrResolver"}
                                   /\ got.cache = <<>>
                                THEN {} ELSE {"reserves"})]
    IN  IF got.err # "nil" THEN Finish(called, Failure(got.err))
        ELSE [called EXCEPT !.pc = "dp"]

\* Route, lines 152-165: level 0 holds one unit of the source.
FirstRow(toks, tokenIn) ==
    [x \in 1..Len(toks) |-> IF x = IndexOf(toks, tokenIn) THEN One ELSE Zero]

\* Route, lines 159-212: one iteration of the loop over the hop levels; the
\* level is the number of rows filled so far.
RelaxStep(l, rq, s) ==
    LET i == Len(s.table)
        tokenOutIndex == IndexOf(s.tokens, rq.tokenOut)
        st == RelaxLevel(l, s.tokens, s.reservesCache, s.table[i])
        filled == [s EXCEPT !.table = Append(s.table, st.row),
                            !.prev[i] = st.prev,
                            !.calls = s.calls \cup {"decimals"}]
    IN  IF i = 0
        THEN [s EXCEPT !.table = <<FirstRow(s.tokens, rq.tokenIn)>>,
                       !.prev = [h \in 0..rq.maxHops |-> <<>>]]
        ELSE IF st.panic # "nil" THEN Finish(filled, Panic(st.panic))
        ELSE IF Stops(s.bestPrice, st.row[tokenOutIndex])
        THEN [filled EXCEPT !.pc = "rebuild"]
        ELSE [filled EXCEPT !.numHops = i + 1,
                            !.bestPrice = st.row[tokenOutIndex],
                            !.pc = IF i = rq.maxHops THEN "rebuild" ELSE "dp"]

\* Route, lines 213-226: the path and the returned value.
ReturnPath(l, rq, s) ==
    Finish(s, Reconstruct(s.table, s.prev, s.tokens, rq.tokenOut, s.numHops))

\* The next step of Route from position s.pc.
Step(l, rq, s) ==
    CASE s.pc = "idle" -> Enter(l, rq, s)
      [] s.pc = "nodes" -> BuildNodes(l, rq, s)
      [] s.pc = "cache" -> PopulateCache(l, rq, s)
      [] s.pc = "dp" -> RelaxStep(l, rq, s)
      [] s.pc = "rebuild" -> ReturnPath(l, rq, s)
      [] OTHER -> s

RECURSIVE Run(_, _, _)
Run(l, rq, s) == IF s.pc = "done" THEN s ELSE Run(l, rq, Step(l, rq, s))

\* A whole call Route(tokenIn, tokenOut, maxHops) on ledger l.
Route(l, tokenIn, tokenOut, maxHops) ==
    Run(l, Request("route", tokenIn, tokenOut, maxHops), Fresh)

Becomes(s) ==
    /\ pc' = s.pc
    /\ tokens' = s.tokens
    /\ reservesCache' = s.reservesCache
    /\ table' = s.table
    /\ prev' = s.prev
    /\ bestPrice' = s.bestPrice
    /\ numHops' = s.numHops
    /\ calls' = s.calls
    /\ result' = s.result

DoRoute(tokenIn, tokenOut, maxHops) ==
    /\ pc = "idle"
    /\ req' = Request("route", tokenIn, tokenOut, maxHops)
    /\ Becomes(Enter(ledger, req', Current))
    /\ UNCHANGED ledger

DoBuildNodes ==
    /\ pc = "nodes"
    /\ Becomes(BuildNodes(ledger, req, Current))
    /\ UNCHANGED <<ledger, req>>

DoPopulateCache ==
    /\ pc = "cache"
    /\ Becomes(PopulateCache(ledger, req, Current))
    /\ UNCHANGED <<ledger, req>>

DoRelaxStep ==
    /\ pc = "dp"
    /\ Becomes(RelaxStep(ledger, req, Current))
    /\ UNCHANGED <<ledger, req>>

DoReturnPath ==
    /\ pc = "rebuild"
    /\ Becomes(ReturnPath(ledger, req, Current))
    /\ UNCHANGED <<ledger, req>>

\* GetExchangeRate called on its own (main, line 417).
DoQuote(tokenA, tokenB) ==
    /\ pc = "idle"
    /\ req' = Request("quote", tokenA, tokenB, 1)
    /\ LET q == GetExchangeRate(ledger, tokenA, tokenB)
       IN  Becomes(Finish([Current EXCEPT !.calls = q.calls], q.res))
    /\ UNCHANGED ledger

CallRoute ==
    \E a \in ledger.assets, b \in ledger.assets, k \in 0..MaxHopsInput :
        DoRoute(a, b, k)

CallQuote == \E a \in ledger.assets, b \in ledger.assets : DoQuote(a, b)

Next ==
    \/ CallRoute
    \/ CallQuote
    \/ DoBuildNodes
    \/ DoPopulateCache
    \/ DoRelaxStep
    \/ DoReturnPath

Spec == Init /\ [][Next]_vars

InitMesh == \E l \in MeshLedgers : Idle(l)

SpecMesh == InitMesh /\ [][Next]_vars

InitScenario == \E l \in ScenarioLedgers : Idle(l)

SpecScenario == InitScenario /\ [][Next]_vars

InitQuote == \E l \in QuoteLedgers : Idle(l)

SpecQuote == InitQuote /\ [][Next]_vars

\* ---------------------------------------------------------------- claims
Returned == pc = "done" /\ req.op = "route"

Searched ==
    /\ Returned
    /\ req.tokenIn # req.tokenOut
    /\ req.maxHops >= 2
    /\ req.maxHops <= MaxHops

\* The marginal rate of one hop a -> b on the ledger: the normalized reserve
\* of b over the normalized reserve of a.
HopRate(l, a, b) ==
    calculatePrice(ReserveOf(l, a, b), ReserveOf(l, b, a), l.dec[a], l.dec[b])

Max2(x, y) == IF Cmp(x, y) >= 0 THEN x ELSE y

RECURSIVE MaxOver(_, _, _, _, _, _)
RECURSIVE BestExact(_, _, _, _, _)

\* The largest product of hop rates over the paths of exactly h hops from
\* src to v through the nodes S (0 when there is none).
BestExact(l, S, src, v, h) ==
    IF h = 0 THEN (IF v = src THEN One ELSE Zero)
    ELSE MaxOver(l, S, src, v, h, S \ {v})

MaxOver(l, S, src, v, h, U) ==
    IF U = {} THEN Zero
    ELSE LET u == CHOOSE x \in U : TRUE
         IN  Max2(Mul(BestExact(l, S, src, u, h - 1), HopRate(l, u, v)),
                  MaxOver(l, S, src, v, h, U \ {u}))

RECURSIVE BestWithin(_, _, _, _, _)
BestWithin(l, S, src, dst, k) ==
    IF k = 0 THEN BestExact(l, S, src, dst, 0)
    ELSE Max2(BestExact(l, S, src, dst, k), BestWithin(l, S, src, dst, k - 1))

Nodes == {tokens[i] : i \in 1..Len(tokens)}

PositiveReserves(l) ==
    \A p \in PairsOf(l.assets) :
        /\ l.pool[p].resolver = "ok" /\ l.pool[p].read.ok
        /\ l.pool[p].read.r0 > 0 /\ l.pool[p].read.r1 > 0

\* C1: with positive reserves in every pool, Route(source, destination,
\* maxHops), 2 <= maxHops <= 5, returns the largest product of hop rates over
\* the paths of at most maxHops hops from source to destination.
C1_RouteIsMaximum ==
    (Searched /\ PositiveReserves(ledger)) =>
        /\ result.status = "ok"
        /\ result.rate = BestWithin(ledger, Nodes, req.tokenIn, req.tokenOut, req.maxHops)

\* The hop level whose value Route returns (line 226).
ReturnedLevel == numHops - 1

Linked(a, b) == a # b /\ <<a, b>> \in DOMAIN reservesCache

\* C2: a path returned by the search starts with the source, ends with the
\* destination, joins only distinct assets whose reserves are cached, and has
\* one element more than the hops of the level whose value is returned.
C2_PathValid ==
    (Searched /\ result.status = "ok") =>
        /\ Len(result.path) = ReturnedLevel + 1
        /\ result.path[1] = req.tokenIn
        /\ result.path[Len(result.path)] = req.tokenOut
        /\ \A i \in 1..(Len(result.path) - 1) :
              Linked(result.path[i], result.path[i + 1])
        /\ result.rate = table[ReturnedLevel + 1][IndexOf(tokens, req.tokenOut)]

\* A search returned a path of four assets.
C2_Witness ==
    /\ Searched
    /\ result.status = "ok"
    /\ Len(result.path) = 4
    /\ ReturnedLevel = 3

IsScenario(l, x, y, z) ==
    /\ l.assets = {x, y, z} /\ Cardinality({x, y, z}) = 3
    /\ l.pool[{x, y}] = PoolOf(x, 100, y, 200)
    /\ l.pool[{y, z}] = PoolOf(y, 100, z, 50)
    /\ l.pool[{x, z}] \in AbsentPools
    /\ \A a \in l.assets : l.dec[a] = Precision /\ ~l.decFail

\* C3: with pool(X, Y) = (100, 200), pool(Y, Z) = (100, 50) and no pool(X, Z),
\* Route(X, Z, 2) returns rate 1 and path [X, Y, Z].
C3_TwoHopScenario ==
    \A x \in ledger.assets, y \in ledger.assets, z \in ledger.assets :
        (/\ IsScenario(ledger, x, y, z)
         /\ Returned
         /\ req = Request("route", x, z, 2))
        => /\ result.status = "ok"
           /\ result.rate = One
           /\ result.path = <<x, y, z>>

\* The destination had value 0 at every level the search went through.
DestinationStaysZero ==
    /\ Len(table) >= 2
    /\ \A h \in 1..Len(table) : IsZero(table[h][IndexOf(tokens, req.tokenOut)])

\* C4: when the destination stays at 0 on every level processed, Route
\* returns a zero output and the path [source], without failing or crashing.
C4_UnreachableReturnsSource ==
    (Searched /\ DestinationStaysZero /\ result.err # "ErrNaN") =>
        /\ result.status = "ok"
        /\ IsZero(result.rate)
        /\ result.path = <<req.tokenIn>>

\* C5: the rate of Route(A, B, k + 1) is at least the rate of Route(A, B, k),
\* and Route(A, B, k + 1) succeeds where Route(A, B, k) does, 1 <= k < 5.
C5_Monotone ==
    (/\ Returned
     /\ req.tokenIn # req.tokenOut
     /\ req.maxHops >= 2
     /\ req.maxHops <= MaxHops
     /\ Route(ledger, req.tokenIn, req.tokenOut, req.maxHops - 1).result.status = "ok")
    => /\ result.status = "ok"
       /\ Cmp(Route(ledger, req.tokenIn, req.tokenOut, req.maxHops - 1).result.rate,
              result.rate) <= 0

\* C6: once the nodes are built, a resolver failure saying that a pair has no
\* pool does not fail Route: the pair is skipped and a result is returned.
C6_AbsentPairAbsorbed ==
    (Searched /\ tokens # <<>>) =>
        /\ result.err # "ErrNoPair"
        /\ (\A p \in PairsOf(Nodes) :
               /\ ledger.pool[p].resolver \in {"ok", "ErrNoPair"}
               /\ (ledger.pool[p].resolver = "ok" => ledger.pool[p].read.ok))
           => result.status = "ok"

\* C7: Route(A, A, k) fails with the same-asset error for every k, and
\* Route(A, B, k) fails with a hop-count error for k = 0 and k > 5; no
\* collaborator is called in either case.
C7_ValidationFirst ==
    Returned =>
        /\ req.tokenIn = req.tokenOut =>
              result = Failure("ErrSameToken") /\ calls = {}
        /\ (req.tokenIn # req.tokenOut /\ req.maxHops = 0) =>
              result = Failure("ErrZeroHops") /\ calls = {}
        /\ (req.tokenIn # req.tokenOut /\ req.maxHops > MaxHops) =>
              result = Failure("ErrTooManyHops") /\ calls = {}

\* Route(A, A, 1) was refused: the same asset with the hop budget of the
\* fast path.
C7_Witness ==
    /\ Returned
    /\ req.tokenIn = req.tokenOut
    /\ req.maxHops = 1
    /\ result.status = "error"

Quoted == pc = "done" /\ req.op = "quote" /\ req.tokenIn # req.tokenOut

\* The reserve of asset a in its pool with b, at 18 decimals.
Normalized(l, a, b) == ReserveOf(l, a, b) * Pow10(Precision - l.dec[a])

Answers(l, a, b) ==
    /\ l.pool[{a, b}].resolver = "ok"
    /\ l.pool[{a, b}].read.ok
    /\ ~l.decFail

\* C8: GetExchangeRate(A, B) is the normalized reserve of B over the
\* normalized reserve of A, reserve0 being that of the numerically smaller
\* asset.
C8_QuoteFormula ==
    (/\ Quoted
     /\ Answers(ledger, req.tokenIn, req.tokenOut)
     /\ ReserveOf(ledger, req.tokenIn, req.tokenOut) > 0)
    => /\ result.status = "ok"
       /\ result.rate.k = "fin"
       /\ result.rate.num * Normalized(ledger, req.tokenIn, req.tokenOut)
            = result.rate.den * Normalized(ledger, req.tokenOut, req.tokenIn)

\* Reserves (95, 19), A the larger identifier, equal precisions: the rate 5.
C8_Witness ==
    /\ Quoted
    /\ Answers(ledger, req.tokenIn, req.tokenOut)
    /\ Magnitude(req.tokenIn) > Magnitude(req.tokenOut)
    /\ ledger.pool[{req.tokenIn, req.tokenOut}].read = ReadOk(95, 19)
    /\ ledger.dec[req.tokenIn] = ledger.dec[req.tokenOut]
    /\ result.rate = Fin(5, 1)

\* The error of the first collaborator that fails in the order they are
\* called: resolver, precision reader, reserve reader.
FirstFailure(l, a, b) ==
    IF l.pool[{a, b}].resolver # "ok" THEN l.pool[{a, b}].resolver
    ELSE IF l.decFail THEN "ErrDecimals"
    ELSE IF ~l.pool[{a, b}].read.ok THEN "ErrReserves"
    ELSE "nil"

\* C9: GetExchangeRate returns the error of the collaborator that failed and
\* no rate, and after a failed pool resolution it reads no reserves.
C9_QuotePropagates ==
    (Quoted /\ FirstFailure(ledger, req.tokenIn, req.tokenOut) # "nil") =>
        /\ result = Failure(FirstFailure(ledger, req.tokenIn, req.tokenOut))
        /\ ledger.pool[{req.tokenIn, req.tokenOut}].resolver # "ok"
              => "reserves" \notin calls

\* C10: the hop price is positive for positive reserves, and a zero
\* reserveIn never puts an infinite value into the table of the search or
\* into the result of Route.
C10_NoInfiniteValue ==
    /\ \A r0 \in 1..MaxReserve, r1 \in 1..MaxReserve,
          dA \in QuotePrecisions, dB \in QuotePrecisions :
          LET price == calculatePrice(r0, r1, dA, dB)
          IN  price.k = "fin" /\ price.num > 0
    /\ (req.op = "route" /\ req.maxHops >= 2) =>
          /\ \A h \in 1..Len(table), x \in 1..Len(tokens) : table[h][x].k # "inf"
          /\ result.rate.k # "inf"

\* The product of the direct quotes GetExchangeRate(a, b) over the consecutive
\* elements (a, b) of path from position i on; NaN when a quote gives no rate.
RECURSIVE QuoteProduct(_, _, _)
QuoteProduct(l, path, i) ==
    IF i >= Len(path) THEN One
    ELSE LET quote == GetExchangeRate(l, path[i], path[i + 1]).res
             rest == QuoteProduct(l, path, i + 1)
         IN  IF quote.status # "ok" \/ rest.k = "nan" THEN NaN
             ELSE Mul(quote.rate, rest)

\* C11: the rate returned by a search that ends without error is the product
\* of the direct quotes GetExchangeRate(a, b) over the consecutive elements
\* (a, b) of the returned path.
C11_RateIsQuoteProduct ==
    (Searched /\ result.status = "ok") =>
        result.rate = QuoteProduct(ledger, result.path, 1)

====
